---- MODULE Spec2Model ----
(***************************************************************************)
(* A model of the static build of the blog: the content collection, the   *)
(* index page (src/pages/index.astro) and the post layout                  *)
(* (src/layouts/BlogPost.astro); and of the two programs the posts         *)
(* publish: the localised sound of the first post and the 3D object of     *)
(* the second.  Each program has its own specification; the variables of   *)
(* the other programs stay at Parked.                                      *)
(*                                                                         *)
(* JavaScript values are records, so that values of different types can    *)
(* be compared: a string is [str |-> s], a Date is [time |-> n] with n its *)
(* valueOf() counted in days since the epoch, an image reference is        *)
(* [src |-> s], and undefined is Undefined.                                *)
(***************************************************************************)
EXTENDS Integers, Sequences, FiniteSets, TLC

VARIABLES
    files,      \* the content store: the entries of src/content/blog, in collection order
    index,      \* the index page: [built, posts, items]
    pages,      \* slug -> the page the BlogPost layout produced, or NotRendered
    errors,     \* slugs of the entries whose page generation failed validation
    rebuilt,    \* history: some output has been generated a second time
    sound,      \* the localised sound of the first post and its audio graph
    viewer      \* the 3D object of the second post: loader, handlers, Info Window

vars == <<files, index, pages, errors, rebuilt, sound, viewer>>

blogVars == <<files, index, pages, errors, rebuilt>>

\* The value of the variable of a program that a specification does not run.
Parked == <<>>

----------------------------------------------------------------------------
(* Bounds and program constants *)

MaxPosts == 3           \* entries of a collection given to the index page
MaxFiles == 2           \* entries of a store whose front-matter varies field by field

PubDatePost1 == 20090   \* pubDate: '2025-01-02', in days since the epoch
PubDatePost2 == 20096   \* pubDate: '2025-01-08'

Base == "blog"

Slugs == 1..MaxPosts
Days == {0, PubDatePost1, PubDatePost2}

----------------------------------------------------------------------------
(* JavaScript values *)

Undefined == [undefined |-> TRUE]
Str(s) == [str |-> s]
Date(n) == [time |-> n]
Image(s) == [src |-> s]

\* Destructuring a property of an object: undefined when the key is absent.
Prop(obj, k) == IF k \in DOMAIN obj THEN obj[k] ELSE Undefined

\* Date.prototype.valueOf
ValueOf(d) == d.time

Range(s) == {s[i] : i \in DOMAIN s}

----------------------------------------------------------------------------
(* The content store: one front-matter record and one body per markdown    *)
(* file.  A key that the front-matter does not give is absent from the     *)
(* record.                                                                 *)

Required == {"title", "description", "pubDate"}

Title1 == "Street View as a game engine: Localised sounds"
Title2 == "Street View as a game engine: Adding 3D objects"
Description == "Making of Finding Gustavo"

\* A content file: its slug (derived from its storage location), its
\* front-matter and its body.
File(slug, fm) == [slug |-> slug, data |-> fm, body |-> Str("body")]

\* An optional front-matter key: absent, or present with one of the values.
Optional(k, values) == {<<>>} \cup {k :> v : v \in values}

\* Front-matter of the posts given to the index page: complete, dated.
IndexData ==
    {[title |-> Str(Title1), description |-> Str(Description), pubDate |-> Date(d)] :
        d \in Days}

\* Front-matter that varies in what the layout reads: the title and the
\* optional updatedDate and heroImage.
LayoutData ==
    {[title |-> Str(t), description |-> Str(Description), pubDate |-> Date(PubDatePost1)]
        @@ u @@ h :
        t \in {Title1, Title2},
        u \in Optional("updatedDate", {Date(0), Date(PubDatePost2)}),
        h \in Optional("heroImage", {Image("hero.webp")})}

\* Front-matter that may lack any of the required keys.
RawData ==
    {t @@ d @@ p :
        t \in Optional("title", {Str(Title1)}),
        d \in Optional("description", {Str(Description)}),
        p \in Optional("pubDate", {Date(PubDatePost1)})}

\* The stores of n files with distinct slugs, in any collection order.
StoresOf(n, slugs, data) ==
    {[i \in 1..n |-> File(sl[i], fm[i])] :
        sl \in {f \in [1..n -> slugs] : \A i, j \in 1..n : f[i] = f[j] => i = j},
        fm \in [1..n -> data]}

Stores ==
    UNION ({StoresOf(n, Slugs, IndexData) : n \in 0..MaxPosts}
           \cup {StoresOf(n, 1..n, LayoutData) : n \in 1..MaxFiles}
           \cup {StoresOf(n, 1..n, RawData) : n \in 1..MaxFiles})

----------------------------------------------------------------------------
(* Validation of the front-matter against the collection's schema.         *)

\* Accepts an entry without a description.
ValidNoDescription(fm) == {"title", "pubDate"} \subseteq DOMAIN fm

\* An entry passes when every required key is given.
Valid(fm) == Required \subseteq DOMAIN fm

\* getCollection('blog'): the validated entries, in collection order.
getCollection == SelectSeq(files, LAMBDA f : Valid(f.data))

EntryOf(slug) == CHOOSE f \in Range(files) : f.slug = slug

FileSlugs == {f.slug : f \in Range(files)}

----------------------------------------------------------------------------
(* The index page, src/pages/index.astro                                   *)

\* Breaks ties the wrong way round: equal dates compare as "a after b".
CompareNoTie(a, b) ==
    IF ValueOf(Prop(a.data, "pubDate")) > ValueOf(Prop(b.data, "pubDate")) THEN -1 ELSE 1

\* Sorts by publish date ascending.
CompareAscending(a, b) ==
    ValueOf(Prop(a.data, "pubDate")) - ValueOf(Prop(b.data, "pubDate"))

\* The comparator given to sort: (a, b) => b.data.pubDate.valueOf() - a.data.pubDate.valueOf()
Compare(a, b) ==
    ValueOf(Prop(b.data, "pubDate")) - ValueOf(Prop(a.data, "pubDate"))

\* One step of the sort: x goes right after the last element that does not
\* compare greater than it.
Insert(sorted, x) ==
    LET notAfter == {j \in 1..Len(sorted) : Compare(sorted[j], x) <= 0}
        k == IF notAfter = {} THEN 0
             ELSE CHOOSE j \in notAfter : \A i \in notAfter : i <= j
    IN  SubSeq(sorted, 1, k) \o <<x>> \o SubSeq(sorted, k + 1, Len(sorted))

\* Array.prototype.sort with the comparator: a stable sort.
RECURSIVE Sort(_)
Sort(s) ==
    IF s = <<>> THEN <<>>
    ELSE Insert(Sort(SubSeq(s, 1, Len(s) - 1)), s[Len(s)])

\* Lists only the first page of the posts.
PostsFirstPage(coll) == SubSeq(Sort(coll), 1, IF Len(coll) < 2 THEN Len(coll) ELSE 2)

\* const posts = (await getCollection('blog')).sort(...)
Posts(coll) == Sort(coll)

\* A permalink made of the publish date instead of the slug.
HrefByDate(post) == <<"blog", ValueOf(Prop(post.data, "pubDate"))>>

\* href={`/blog/${post.slug}`}, as path segments
Href(post) == <<"blog", post.slug>>

\* One <li> of the listing.
IndexItem(post) ==
    [href |-> Href(post),
     date |-> Prop(post.data, "pubDate"),
     title |-> Prop(post.data, "title"),
     description |-> Prop(post.data, "description")]

NotBuilt == [built |-> FALSE, posts |-> <<>>, items |-> <<>>]

BuildIndex ==
    /\ index' = [built |-> TRUE,
                 posts |-> Posts(getCollection),
                 items |-> [i \in 1..Len(Posts(getCollection)) |->
                               IndexItem(Posts(getCollection)[i])]]
    /\ rebuilt' = (rebuilt \/ index.built)
    /\ UNCHANGED <<files, pages, errors, sound, viewer>>

----------------------------------------------------------------------------
(* The post layout, src/layouts/BlogPost.astro.  A page is the sequence of *)
(* the components and elements the template emits, in document order, each *)
(* with the props it is given.                                             *)

NotRendered == <<>>

Rendered == {s \in Slugs : pages[s] # NotRendered}

\* Tests the date's value instead of the Date object.
TruthyByValue(v) == v # Undefined /\ ValueOf(v) # 0

\* updatedDate && (...): undefined is falsy, a Date object is truthy.
Truthy(v) == v # Undefined

\* Numbers the header with a counter shared by all renders.
BlogPostCounted(props, body) ==
    <<[tag |-> "BaseHead", title |-> Prop(props, "title"),
       description |-> Prop(props, "description")],
      [tag |-> "Header", id |-> Cardinality(Rendered)],
      [tag |-> "FormattedDate", date |-> Prop(props, "pubDate")]>>
    \o (IF Truthy(Prop(props, "updatedDate"))
        THEN <<[tag |-> "last-updated-on", date |-> Prop(props, "updatedDate")]>>
        ELSE <<>>)
    \o <<[tag |-> "h1", text |-> Prop(props, "title")],
         [tag |-> "slot", body |-> body],
         [tag |-> "hexagram"],
         [tag |-> "Footer"]>>

\* Emits the body above the title block.
BlogPostBodyFirst(props, body) ==
    <<[tag |-> "BaseHead", title |-> Prop(props, "title"),
       description |-> Prop(props, "description")],
      [tag |-> "Header"],
      [tag |-> "slot", body |-> body],
      [tag |-> "FormattedDate", date |-> Prop(props, "pubDate")]>>
    \o (IF Truthy(Prop(props, "updatedDate"))
        THEN <<[tag |-> "last-updated-on", date |-> Prop(props, "updatedDate")]>>
        ELSE <<>>)
    \o <<[tag |-> "h1", text |-> Prop(props, "title")],
         [tag |-> "hexagram"],
         [tag |-> "Footer"]>>

\* const { title, description, pubDate, updatedDate, heroImage } = Astro.props;
\* then the template.  heroImage is destructured and not used.
BlogPost(props, body) ==
    <<[tag |-> "BaseHead", title |-> Prop(props, "title"),
       description |-> Prop(props, "description")],
      [tag |-> "Header"],
      [tag |-> "FormattedDate", date |-> Prop(props, "pubDate")]>>
    \o (IF Truthy(Prop(props, "updatedDate"))
        THEN <<[tag |-> "last-updated-on", date |-> Prop(props, "updatedDate")]>>
        ELSE <<>>)
    \o <<[tag |-> "h1", text |-> Prop(props, "title")],
         [tag |-> "slot", body |-> body],
         [tag |-> "hexagram"],
         [tag |-> "Footer"]>>

\* The page of one entry of the collection is generated.
RenderPost(s) ==
    /\ \E e \in Range(getCollection) :
          /\ e.slug = s
          /\ pages' = [pages EXCEPT ![s] = BlogPost(e.data, e.body)]
    /\ rebuilt' = (rebuilt \/ pages[s] # NotRendered)
    /\ UNCHANGED <<files, index, errors, sound, viewer>>

\* The page of an entry that fails validation is not generated.
FailValidation(s) ==
    /\ s \in FileSlugs
    /\ ~Valid(EntryOf(s).data)
    /\ errors' = errors \cup {s}
    /\ UNCHANGED <<files, index, pages, rebuilt, sound, viewer>>

----------------------------------------------------------------------------
(* The build *)

Init ==
    /\ files \in Stores
    /\ index = NotBuilt
    /\ pages = [s \in Slugs |-> NotRendered]
    /\ errors = {}
    /\ rebuilt = FALSE
    /\ sound = Parked
    /\ viewer = Parked

Next ==
    \/ BuildIndex
    \/ \E s \in Slugs : RenderPost(s)
    \/ \E s \in Slugs : FailValidation(s)

Spec == Init /\ [][Next]_vars

----------------------------------------------------------------------------
(* The index listing *)

DayOf(item) == ValueOf(item.date)

\* The position of an entry in the order getCollection returns.
CollectionPos(slug) ==
    CHOOSE i \in 1..Len(getCollection) : getCollection[i].slug = slug

\* C1: the posts of the index page are ordered by pubDate descending: an
\* earlier item never has an earlier date than a later item, and an item
\* dated 2025-01-08 is listed before every item dated 2025-01-02.
C1_IndexSortedByDateDescending ==
    index.built =>
        \A i, j \in 1..Len(index.items) :
            /\ i < j => DayOf(index.items[i]) >= DayOf(index.items[j])
            /\ (DayOf(index.items[i]) = PubDatePost2
                /\ DayOf(index.items[j]) = PubDatePost1) => i < j

\* The store holds the post of 2025-01-02 and then the post of 2025-01-08,
\* and the built index lists the post of 2025-01-08 first.
C1_Witness ==
    /\ index.built
    /\ Len(files) = 2
    /\ Prop(files[1].data, "pubDate") = Date(PubDatePost1)
    /\ Prop(files[2].data, "pubDate") = Date(PubDatePost2)
    /\ Len(index.items) = 2
    /\ index.items[1].date = Date(PubDatePost2)
    /\ index.items[1].href = <<Base, files[2].slug>>

\* C2: the sort is stable: of two listed posts the earlier one has the
\* later date, or the same date and the earlier position in the collection.
C2_IndexSortStable ==
    index.built =>
        \A i, j \in 1..Len(index.posts) :
            i < j =>
                LET a == index.posts[i]
                    b == index.posts[j]
                IN  \/ ValueOf(a.data.pubDate) > ValueOf(b.data.pubDate)
                    \/ /\ ValueOf(a.data.pubDate) = ValueOf(b.data.pubDate)
                       /\ CollectionPos(a.slug) < CollectionPos(b.slug)

\* Three posts, the first and the last of the collection of one date and
\* the middle one later: the sort moved the middle one to the front and
\* kept the other two in collection order.
C2_Witness ==
    /\ index.built
    /\ Len(getCollection) = 3
    /\ getCollection[1].data.pubDate = getCollection[3].data.pubDate
    /\ ValueOf(getCollection[2].data.pubDate) > ValueOf(getCollection[1].data.pubDate)
    /\ index.posts = <<getCollection[2], getCollection[1], getCollection[3]>>

\* C8: the index listing is a permutation of the collection: it has one
\* item for every entry and every entry is listed exactly once, nothing
\* else; the listing of the empty collection is empty.
C8_IndexIsPermutation ==
    index.built =>
        /\ Len(index.items) = Len(getCollection)
        /\ Len(index.posts) = Len(index.items)
        /\ \A e \in Range(getCollection) :
              Cardinality({i \in 1..Len(index.posts) : index.posts[i] = e}) = 1
        /\ \A i \in 1..Len(index.posts) : index.posts[i] \in Range(getCollection)

\* A collection of three posts that the sort had to reorder is listed in full.
C8_Witness ==
    /\ index.built
    /\ Len(getCollection) >= 3
    /\ index.posts # getCollection
    /\ Len(index.items) = Len(getCollection)

\* C9: every item of the listing links to the route of its own entry's
\* slug under the base path, and no two items link to the same route.
C9_IndexLinksBySlug ==
    index.built =>
        /\ \A i \in 1..Len(index.items) :
              /\ index.items[i].href = <<Base, index.posts[i].slug>>
              /\ index.items[i].title = index.posts[i].data.title
              /\ index.items[i].description = index.posts[i].data.description
              /\ index.items[i].date = index.posts[i].data.pubDate
        /\ \A i, j \in 1..Len(index.items) :
              i # j => index.items[i].href # index.items[j].href

\* Two posts of one publish date are listed, each under its own route.
C9_Witness ==
    /\ index.built
    /\ \E i, j \in 1..Len(index.items) :
          /\ i # j
          /\ index.items[i].date = index.items[j].date
          /\ index.items[i].href # index.items[j].href

----------------------------------------------------------------------------
(* Validation *)

Invalid == {f.slug : f \in {g \in Range(files) : ~(Required \subseteq DOMAIN g.data)}}

\* The values a page or an index item shows of its entry's required fields.
ShownValues(page) ==
    UNION {{Prop(page[i], k) : k \in {"title", "description", "date", "text"} \cap DOMAIN page[i]} :
              i \in 1..Len(page)}

\* C3: an entry that lacks a required field (title, description or publish
\* date) gets no page and no index item, only a validation error; no page
\* and no index item shows a blank title, description or date.
C3_MissingFieldFailsValidation ==
    /\ \A s \in Invalid :
          /\ pages[s] = NotRendered
          /\ \A i \in 1..Len(index.posts) : index.posts[i].slug # s
    /\ errors \subseteq Invalid
    /\ \A s \in Rendered : Undefined \notin ShownValues(pages[s])
    /\ Undefined \notin ShownValues(index.items)

\* An entry without a required field has failed validation while the page
\* of a valid entry of the same store and the index were generated.
C3_Witness ==
    /\ index.built
    /\ \E s \in Invalid : s \in errors
    /\ \E t \in Rendered : t \notin Invalid

----------------------------------------------------------------------------
(* The post layout *)

\* The positions of the nodes of a page with the given tag.
At(page, tag) == {i \in 1..Len(page) : page[i].tag = tag}

\* C4: a rendered page holds the "Last updated on" notice exactly when its
\* entry has an updated date, and the notice shows that date.
C4_LastUpdatedIffUpdatedDate ==
    \A s \in Rendered :
        LET fm == EntryOf(s).data
            notices == At(pages[s], "last-updated-on")
        IN  /\ "updatedDate" \in DOMAIN fm =>
                  /\ Cardinality(notices) = 1
                  /\ \A i \in notices : pages[s][i].date = fm.updatedDate
            /\ "updatedDate" \notin DOMAIN fm => notices = {}

\* One rendered page has an updated date, the date of the epoch, and shows
\* the notice; another rendered page has none and shows no notice.
C4_Witness ==
    /\ \E s \in Rendered :
          /\ Prop(EntryOf(s).data, "updatedDate") = Date(0)
          /\ At(pages[s], "last-updated-on") # {}
    /\ \E s \in Rendered :
          /\ "updatedDate" \notin DOMAIN EntryOf(s).data
          /\ At(pages[s], "last-updated-on") = {}

\* C5: the head metadata of a rendered page references the entry's hero
\* image exactly when the entry has one.
C5_HeroImageInHead ==
    \A s \in Rendered :
        LET fm == EntryOf(s).data
        IN  \A i \in At(pages[s], "BaseHead") :
                /\ "heroImage" \in DOMAIN fm <=> "image" \in DOMAIN pages[s][i]
                /\ "heroImage" \in DOMAIN fm => Prop(pages[s][i], "image") = fm.heroImage

\* The one position of a part that a page holds exactly once.
PosOf(page, tag) == CHOOSE i \in At(page, tag) : TRUE

\* C10: every rendered page holds, in this order and each exactly once,
\* the head metadata (with the entry's title and description), the header,
\* the publish date, the title, the body and the footer; a last-updated
\* notice, when there is one, stands between the publish date and the title.
C10_PageComplete ==
    \A s \in Rendered :
        LET p == pages[s]
            e == EntryOf(s)
        IN  /\ \A tag \in {"BaseHead", "Header", "FormattedDate", "h1", "slot", "Footer"} :
                  Cardinality(At(p, tag)) = 1
            /\ PosOf(p, "BaseHead") = 1
            /\ PosOf(p, "BaseHead") < PosOf(p, "Header")
            /\ PosOf(p, "Header") < PosOf(p, "FormattedDate")
            /\ PosOf(p, "FormattedDate") < PosOf(p, "h1")
            /\ PosOf(p, "h1") < PosOf(p, "slot")
            /\ PosOf(p, "slot") < PosOf(p, "Footer")
            /\ PosOf(p, "Footer") = Len(p)
            /\ \A i \in At(p, "last-updated-on") :
                  PosOf(p, "FormattedDate") < i /\ i < PosOf(p, "h1")
            /\ p[PosOf(p, "BaseHead")].title = e.data.title
            /\ p[PosOf(p, "BaseHead")].description = e.data.description
            /\ p[PosOf(p, "FormattedDate")].date = e.data.pubDate
            /\ p[PosOf(p, "h1")].text = e.data.title
            /\ p[PosOf(p, "slot")].body = e.body

\* Two pages are rendered, one with the last-updated notice in its title
\* block and one without.
C10_Witness ==
    /\ \E s \in Rendered :
          /\ Len(pages[s]) = 8
          /\ pages[s][4].tag = "last-updated-on"
          /\ pages[s][8].tag = "Footer"
    /\ \E s \in Rendered :
          /\ Len(pages[s]) = 7
          /\ pages[s][7].tag = "Footer"

\* The entries of the store with the same metadata and body.
SameInput(s, t) ==
    /\ EntryOf(s).data = EntryOf(t).data
    /\ EntryOf(s).body = EntryOf(t).body

----------------------------------------------------------------------------
(* The localised sound of the first post,                                  *)
(* src/content/blog/finding-gustavo-1.md.  The post gives the code twice:  *)
(* step by step (the switch is added to an updateMix that has already      *)
(* computed the distance, and the state is initialised to IDLE), and as    *)
(* one complete listing (the switch stands first in updateMix, the         *)
(* distance is declared after it, and the state is never initialised).     *)
(* The player's position is kept as its distance from the sound.           *)

IDLE == 0
LOADING == 1
SUSPENDED == 3
PLAYING == 4

PLAY_DISTANCE_THRESHOLD == 300
LOAD_DISTANCE_THRESHOLD == PLAY_DISTANCE_THRESHOLD + 20

MaxCalls == 2           \* calls of load, connect and disconnect are counted up to this

MaxSteps == 3           \* the player's distances lie up to this many steps of 10 around the play threshold

SoundStates == {IDLE, LOADING, SUSPENDED, PLAYING}

Listings == {"steps", "complete"}

Distances ==
    {0, PLAY_DISTANCE_THRESHOLD - 1, LOAD_DISTANCE_THRESHOLD - 1}
    \cup {PLAY_DISTANCE_THRESHOLD + 10 * k : k \in -MaxSteps..MaxSteps}

\* A counter of calls that stops at MaxCalls.
Count(n) == IF n < MaxCalls THEN n + 1 ELSE n

\* The sound, the source node and the player before any event.  In the
\* complete listing localisedSound has no state property.
InitialSound(listing, d) ==
    [listing |-> listing,
     hasState |-> listing = "steps",
     state |-> IDLE,
     pos |-> d,
     fetching |-> FALSE,        \* the request of load() is in flight
     buffer |-> FALSE,          \* source.buffer is set
     connected |-> FALSE,       \* source is connected to the processing chain
     started |-> FALSE,         \* source.start() has been called
     failed |-> FALSE,          \* the promise of load() has rejected
     warned |-> FALSE,          \* the "Couldn't load" warning has been logged
     loads |-> 0,
     connects |-> 0,
     disconnects |-> 0,
     read |-> "none"]           \* what the last updateMix read as distance

\* The switch reads `distance`: the value computed from the position, or,
\* in the complete listing, a const that is declared further down.
DistanceRead(s) == IF s.listing = "steps" THEN "value" ELSE "uninitialised"

\* load() marks the sound SUSPENDED right away and fetches afterwards.
loadSuspendsAtOnce(s) ==
    [s EXCEPT !.hasState = TRUE, !.state = SUSPENDED, !.fetching = TRUE,
              !.loads = Count(@)]

\* load() sets the state only after the fetch.
loadSetsStateLate(s) ==
    [s EXCEPT !.fetching = TRUE, !.loads = Count(@)]

\* load(), up to its first await: the state is LOADING and the request is sent.
load(s) ==
    [s EXCEPT !.hasState = TRUE, !.state = LOADING, !.fetching = TRUE,
              !.loads = Count(@)]

\* The SUSPENDED branch within play distance: connect, start, and then
\* `state = Sound.state.PLAYING`, which does not assign localisedSound.state.
StartPlayback(s) ==
    [s EXCEPT !.connected = TRUE, !.connects = Count(@), !.started = TRUE]

\* The PLAYING branch beyond play distance.
Suspend(s) ==
    [s EXCEPT !.connected = FALSE, !.disconnects = Count(@), !.state = SUSPENDED]

\* updateMix: the switch over the sound's state.
updateMix(s) ==
    IF s.hasState /\ s.state = LOADING THEN [s EXCEPT !.read = "none"]
    ELSE IF DistanceRead(s) = "uninitialised"
    THEN [s EXCEPT !.read = "uninitialised"]        \* ReferenceError
    ELSE LET distance == s.pos
             r == [s EXCEPT !.read = "value"]
         IN  IF s.hasState /\ s.state = PLAYING
             THEN IF distance >= PLAY_DISTANCE_THRESHOLD THEN Suspend(r) ELSE r
             ELSE IF s.hasState /\ s.state = SUSPENDED
             THEN IF distance < PLAY_DISTANCE_THRESHOLD THEN StartPlayback(r) ELSE r
             ELSE IF distance < LOAD_DISTANCE_THRESHOLD
                  THEN load(r)      \* the try block: load() returns a promise
                  ELSE r

\* position_changed: the player is at a new position.
PositionChanged(d) ==
    /\ sound' = updateMix([sound EXCEPT !.pos = d])
    /\ UNCHANGED <<blogVars, viewer>>

\* pov_changed: the player looks around.
PovChanged ==
    /\ sound' = updateMix(sound)
    /\ UNCHANGED <<blogVars, viewer>>

\* The fetch and the decoding succeed: load() runs to its end.
LoadComplete ==
    /\ sound.fetching
    /\ sound' = [sound EXCEPT !.fetching = FALSE, !.buffer = TRUE, !.state = SUSPENDED]
    /\ UNCHANGED <<blogVars, viewer>>

\* The fetch or the decoding rejects: the promise of load() rejects, and
\* nothing awaits or catches it.
LoadFail ==
    /\ sound.fetching
    /\ sound' = [sound EXCEPT !.fetching = FALSE, !.failed = TRUE]
    /\ UNCHANGED <<blogVars, viewer>>

BlogParked ==
    /\ files = Parked
    /\ index = Parked
    /\ pages = Parked
    /\ errors = Parked
    /\ rebuilt = FALSE

InitSound ==
    /\ sound \in {InitialSound(l, d) : l \in Listings, d \in Distances}
    /\ BlogParked
    /\ viewer = Parked

NextSound ==
    \/ \E d \in Distances : PositionChanged(d)
    \/ PovChanged
    \/ LoadComplete
    \/ LoadFail

SpecSound == InitSound /\ [][NextSound]_vars

\* The player keeps coming to every distance and a request in flight ends.
SpecSoundFair ==
    /\ SpecSound
    /\ \A d \in Distances : SF_vars(PositionChanged(d))
    /\ WF_vars(LoadComplete \/ LoadFail)

\* A step in which updateMix runs.
UpdateMixRuns == (\E d \in Distances : PositionChanged(d)) \/ PovChanged

\* C12: the sound is loaded only when needed and at most once: load() is
\* started only by an updateMix that finds the sound IDLE and the player
\* nearer than LOAD_DISTANCE_THRESHOLD, and it is never started a second
\* time, whatever the sound's state afterwards.
C12_LoadOnlyWhenNeededOnce ==
    /\ [](sound.loads <= 1)
    /\ [][sound'.loads > sound.loads =>
             /\ UpdateMixRuns
             /\ sound.hasState
             /\ sound.state = IDLE
             /\ sound'.pos < LOAD_DISTANCE_THRESHOLD
             /\ sound'.state = LOADING]_vars

\* The sound was loaded once, its load has completed and it has been
\* started, and the player is still within the load distance.
C12_Witness ==
    /\ sound.loads = 1
    /\ sound.buffer
    /\ sound.started
    /\ sound.pos < LOAD_DISTANCE_THRESHOLD

\* C13: when updateMix runs while the sound is SUSPENDED and the player is
\* nearer than PLAY_DISTANCE_THRESHOLD, the source is connected and
\* started and the sound's state becomes PLAYING.
C13_SuspendedStartsPlaying ==
    [][(/\ UpdateMixRuns
        /\ sound.hasState
        /\ sound.state = SUSPENDED
        /\ sound'.pos < PLAY_DISTANCE_THRESHOLD)
       => (/\ sound'.connected
           /\ sound'.started
           /\ sound'.state = PLAYING)]_vars

\* The sound plays: its state is PLAYING, or its source has been started
\* and is connected to the processing chain.
Playing(s) == (s.hasState /\ s.state = PLAYING) \/ (s.connected /\ s.started)

C15_NoPlaybackBeforeLoaded ==
    /\ LOAD_DISTANCE_THRESHOLD > PLAY_DISTANCE_THRESHOLD
    /\ (sound.connected \/ sound.started \/ sound.connects > 0) =>
          /\ sound.buffer
          /\ ~sound.fetching
          /\ sound.loads > 0
          /\ sound.state \in {SUSPENDED, PLAYING}

\* The source is connected and started, after a load that began beyond the
\* play distance has completed.
C15_Witness ==
    /\ sound.connected
    /\ sound.started
    /\ sound.buffer
    /\ sound.loads = 1

\* C16: the sound's state is always one of IDLE, LOADING, SUSPENDED and
\* PLAYING, and each of them is reached: in the code given step by step,
\* as the player keeps moving, LOADING is reached and, unless the load
\* fails, SUSPENDED and PLAYING are.
C16_FourStatesAllReached ==
    /\ [](sound.hasState => sound.state \in SoundStates)
    /\ sound.listing = "steps" =>
          /\ sound.state = IDLE
          /\ <>(sound.state = LOADING)
          /\ \/ <>sound.failed
             \/ <>(sound.state = SUSPENDED) /\ <>(sound.state = PLAYING)

\* C17: the source is connected only on a transition from SUSPENDED to
\* PLAYING and disconnected only on a transition from PLAYING to
\* SUSPENDED, so that connects and disconnects alternate.
C17_ConnectsAlternate ==
    [][/\ sound'.connects > sound.connects =>
             /\ sound.state = SUSPENDED
             /\ sound'.state = PLAYING
             /\ ~sound.connected
       /\ sound'.disconnects > sound.disconnects =>
             /\ sound.state = PLAYING
             /\ sound'.state = SUSPENDED
             /\ sound.connected]_vars

\* C18: when the load of the sound has failed, the "Couldn't load" warning
\* has been logged and the sound is not in the LOADING state.
C18_LoadFailureCaught ==
    sound.failed => sound.warned /\ sound.state # LOADING

\* C19: in the complete listing every updateMix that reads the distance
\* reads the value computed from the player's current position.
C19_DistanceComputedBeforeSwitch ==
    sound.listing = "complete" => sound.read \in {"none", "value"}

----------------------------------------------------------------------------
(* The 3D object of the second post, src/unnamed/part_000: the memoized    *)
(* model loader and the position_changed listener.  JavaScript runs one    *)
(* listener at a time up to its next await; an invocation of the async     *)
(* listener that awaits is resumed in a later step.  The listings never    *)
(* assign `object`: the scene that loadObject() resolves to is dropped.    *)

LOAD_THRESHOLD == 40
APPEAR_THRESHOLD == 10

MaxHandlers == 3        \* position_changed events of one run

ObjectPath == "path/to/the/3d/model"

Paths == {ObjectPath}

\* let dist = Infinity: farther than every position of the player.
Infinity == LOAD_THRESHOLD + LOAD_THRESHOLD

\* The player's distances from the object: at and next to both thresholds.
ViewerDistances ==
    {0, APPEAR_THRESHOLD - 1, APPEAR_THRESHOLD,
     LOAD_THRESHOLD - 1, LOAD_THRESHOLD}

\* MIN_ZOOM = 0.8, with zoom levels counted in tenths.
MIN_ZOOM == 8

\* The zoom levels of the panorama's point of view, in tenths: below, at
\* and above MIN_ZOOM.
Zooms == {0, MIN_ZOOM, MIN_ZOOM + 2}

\* (1 / dist) * DISTANCE_FACTOR * Math.max(MIN_ZOOM, zoom), kept as the
\* distance it divides by and the zoom it multiplies with.
Scale(d, zoom) == [over |-> d, times |-> IF MIN_ZOOM > zoom THEN MIN_ZOOM ELSE zoom]

CanvasRows == 3         \* the canvas is this many rows of pixels high

\* The rows of the canvas, from the top (offsetY = 0) downwards.
Rows == 0..(CanvasRows - 1)

\* The pointer is not over the canvas.
Outside == CanvasRows

\* The post gives the code step by step (the scene is built with the
\* object in it and the Info Window is opened at once) and as one complete
\* listing (the object is loaded on demand).
ViewerListings == {"steps", "complete"}

\* An invocation of the listener: where it stands, whether a loadObject()
\* it awaited has resolved, how its last loadGLTF call was served, and
\* whether that call has yet to settle.
NotInvoked == [pc |-> "none", loaded |-> FALSE, call |-> "none", pending |-> FALSE]

InitialViewer ==
    [listing |-> "complete",
     dist |-> Infinity,
     zoom |-> MIN_ZOOM + 2,                         \* panorama.getPov().zoom
     scale |-> [unset |-> TRUE],                    \* canvas.style.scale
     shape |-> {},                                  \* the rows of the canvas that show the rendered object
     pointer |-> 0,                                 \* pointer.y, in units of 1 / CanvasRows
     at |-> Outside,                                \* the row of the last pointermove
     hovered |-> FALSE,
     interactions |-> 0,                            \* click interactions triggered
     event |-> "none",                              \* the listener that ran last
     object |-> FALSE,                              \* `object` holds a loaded scene
     isOpen |-> FALSE,                              \* infoWindow.isOpen
     memoized |-> [p \in Paths |-> "absent"],       \* the Map: no entry, or the state of the entry's promise
     requests |-> [p \in Paths |-> 0],              \* calls of startLoading
     handlers |-> [i \in 1..MaxHandlers |-> NotInvoked],
     given |-> <<>>,                                \* the scenes loadGLTF has returned, call by call
     opens |-> 0,                                   \* calls of infoWindow.open
     renders |-> 0]                                 \* calls of renderer.render

\* loadGLTF without the memo: every call sends its own request.
loadGLTFUnmemoized(v, path) ==
    [v EXCEPT !.memoized[path] = "pending", !.requests[path] = Count(@)]

\* loadGLTF that sends a new request when the memoized promise has rejected.
loadGLTFRetrying(v, path) ==
    IF v.memoized[path] \in {"pending", "resolved"} THEN v
    ELSE [v EXCEPT !.memoized[path] = "pending", !.requests[path] = Count(@)]

\* loadGLTF, up to its first await: a memoized path waits for the entry's
\* promise; otherwise the request is started and its promise memoized.
loadGLTF(v, path) ==
    IF v.memoized[path] # "absent" THEN v
    ELSE [v EXCEPT !.memoized[path] = "pending", !.requests[path] = Count(@)]

\* Which return of loadGLTF serves a call: the clone of the memoized scene,
\* or the promise of startLoading itself.
CallKind(v, path) == IF v.memoized[path] # "absent" THEN "memo" ELSE "first"

\* const loadObject = () => loadGLTF('path/to/the/3d/model'), called by
\* invocation i, which goes on to pc.
loadObject(v, i, pc) ==
    [loadGLTF(v, ObjectPath) EXCEPT
        !.handlers[i].pc = pc,
        !.handlers[i].call = CallKind(v, ObjectPath),
        !.handlers[i].pending = TRUE]

\* The scene that startLoading resolves to.
Original == 0

\* Hands the memoized scene itself to every caller.
cloneShared(v) == Original

\* scene.clone(true): a new instance, numbered by the clones made so far.
clone(v) == Cardinality({k \in 1..Len(v.given) : v.given[k].scene # Original}) + 1

\* The loadGLTF call of invocation i resolves: the call that started the
\* request gets the scene of its promise, a call served from the memo a clone.
Receive(v, i) ==
    [v EXCEPT
        !.handlers[i].pending = FALSE,
        !.given = Append(@, [call |-> v.handlers[i].call,
                             scene |-> IF v.handlers[i].call = "first"
                                       THEN Original ELSE clone(v)])]

\* Opens the Info Window anywhere within the load distance.
OpenAllowedWithinLoad(v) == v.dist < LOAD_THRESHOLD

\* if (dist < APPEAR_THRESHOLD), read when the window is about to be opened.
OpenAllowed(v) == v.dist < APPEAR_THRESHOLD

\* The end of the listener: rotate the object and render the scene.
\* object.rotation.y throws when `object` holds no scene.
Render(v, i) ==
    IF v.object
    THEN [v EXCEPT !.renders = Count(@), !.handlers[i].pc = "returned"]
    ELSE [v EXCEPT !.handlers[i].pc = "thrown"]

\* if (!object) { await loadObject(); } and what follows.
LoadThenRender(v, i) ==
    IF ~v.object THEN loadObject(v, i, "await518") ELSE Render(v, i)

\* if (!infoWindow.isOpen) { ... } and what follows.
OpenThenRender(v, i) ==
    IF ~v.isOpen
    THEN IF OpenAllowed(v)
         THEN LoadThenRender([v EXCEPT !.isOpen = TRUE, !.opens = Count(@)], i)
         ELSE [v EXCEPT !.handlers[i].pc = "returned"]
    ELSE LoadThenRender(v, i)

\* The listener from its start to its first await or return.
Listener(v, i, d) ==
    LET w == [v EXCEPT !.dist = d, !.scale = Scale(d, v.zoom), !.event = "position"]
    IN  IF w.dist < LOAD_THRESHOLD /\ ~w.object
        THEN IF w.dist < APPEAR_THRESHOLD
             THEN loadObject(w, i, "await501")
             ELSE loadObject(w, i, "returned")      \* return loadObject();
        ELSE OpenThenRender(w, i)

Awaiting(h) == h.pc \in {"await501", "await518"}

\* The invocation that the next position_changed event starts.
NextHandler ==
    {i \in 1..MaxHandlers :
        /\ viewer.handlers[i].pc = "none"
        /\ \A j \in 1..MaxHandlers : j < i => viewer.handlers[j].pc # "none"}

\* The listener of the step-by-step code: rotate the object, render the
\* scene, store the distance and scale the canvas.
StepListener(v, d) ==
    [v EXCEPT !.renders = Count(@), !.dist = d, !.scale = Scale(d, v.zoom),
              !.event = "position"]

\* position_changed: the player is at distance d from the object.
OnPositionChanged(d) ==
    /\ IF viewer.listing = "steps"
       THEN viewer' = StepListener(viewer, d)
       ELSE \E i \in NextHandler : viewer' = Listener(viewer, i, d)
    /\ UNCHANGED <<blogVars, sound>>

\* A pov_changed listener that also renders the scene again.
povListenerRendering(v, zoom) ==
    [v EXCEPT !.zoom = zoom, !.scale = Scale(v.dist, zoom), !.renders = Count(@),
              !.event = "pov"]

\* The pov_changed listener, run with the zoom of the new point of view.
povListener(v, zoom) ==
    [v EXCEPT !.zoom = zoom, !.scale = Scale(v.dist, zoom), !.event = "pov"]

\* pov_changed: the player looks around or zooms.
OnPovChanged(zoom) ==
    /\ viewer' = povListener(viewer, zoom)
    /\ UNCHANGED <<blogVars, sound>>

\* The loadObject() that invocation i awaits has resolved: it goes on.
Resume(i) ==
    /\ Awaiting(viewer.handlers[i])
    /\ viewer.memoized[ObjectPath] = "resolved"
    /\ LET v == [Receive(viewer, i) EXCEPT !.handlers[i].loaded = TRUE]
       IN  viewer' = IF viewer.handlers[i].pc = "await501"
                     THEN OpenThenRender(v, i)
                     ELSE Render(v, i)
    /\ UNCHANGED <<blogVars, sound>>

\* The loadObject() that invocation i awaits has rejected: the await throws.
Throw(i) ==
    /\ Awaiting(viewer.handlers[i])
    /\ viewer.memoized[ObjectPath] = "rejected"
    /\ viewer' = [viewer EXCEPT !.handlers[i].pc = "thrown", !.handlers[i].pending = FALSE]
    /\ UNCHANGED <<blogVars, sound>>

\* The loadObject() that invocation i returned settles: the promise of the
\* invocation resolves to the scene, or rejects.
Settle(i) ==
    /\ viewer.handlers[i].pc = "returned"
    /\ viewer.handlers[i].pending
    /\ \/ /\ viewer.memoized[ObjectPath] = "resolved"
          /\ viewer' = Receive(viewer, i)
       \/ /\ viewer.memoized[ObjectPath] = "rejected"
          /\ viewer' = [viewer EXCEPT !.handlers[i].pending = FALSE]
    /\ UNCHANGED <<blogVars, sound>>

\* The loader calls ({ scene }) => resolve(scene).
LoadResolves(path) ==
    /\ viewer.memoized[path] = "pending"
    /\ viewer' = [viewer EXCEPT !.memoized[path] = "resolved"]
    /\ UNCHANGED <<blogVars, sound>>

\* The loader calls reject, or the executor of startLoading throws.
LoadRejects(path) ==
    /\ viewer.memoized[path] = "pending"
    /\ viewer' = [viewer EXCEPT !.memoized[path] = "rejected"]
    /\ UNCHANGED <<blogVars, sound>>

\* pointer.y = (event.offsetY / canvas.height) * dpr * 2 - 1 for an event in
\* the middle of row r, in units of 1 / CanvasRows: the top row gives the
\* least value.
PointerY(r) == 2 * r + 1 - CanvasRows

\* The y of row q of the rendered image in the normalized device
\* coordinates the raycaster takes: +1 at the top, -1 at the bottom.
NdcOfRow(q) == CanvasRows - 1 - 2 * q

\* raycaster.intersectObject(object, true).length > 0, for the ray through
\* y: the ray meets the object where the rendered image shows it.
Intersects(v, y) == \E q \in v.shape : NdcOfRow(q) = y

\* onPointerMove for an event in row r.  With no scene in `object`,
\* intersectObject throws and hovered keeps its value.
onPointerMove(v, r) ==
    LET w == [v EXCEPT !.pointer = PointerY(r), !.at = r, !.event = "pointermove"]
    IN  IF v.object THEN [w EXCEPT !.hovered = Intersects(w, w.pointer)] ELSE w

\* pointermove on the canvas.
OnPointerMove(r) ==
    /\ viewer' = onPointerMove(viewer, r)
    /\ UNCHANGED <<blogVars, sound>>

\* click on the canvas, where the pointer was last moved to: the click
\* interaction is triggered if (hovered).
OnClick ==
    /\ viewer.at # Outside
    /\ viewer' = [viewer EXCEPT !.event = "click",
                                !.interactions = IF viewer.hovered THEN Count(@) ELSE @]
    /\ UNCHANGED <<blogVars, sound>>

\* The step-by-step code before any event: the object is in the scene, it
\* is rendered (shown in the rows of shape) and the Info Window is open.
InitialSteps(shape) ==
    [InitialViewer EXCEPT !.listing = "steps", !.object = TRUE, !.isOpen = TRUE,
                          !.shape = shape, !.renders = 1]

InitViewer ==
    /\ viewer \in {InitialViewer} \cup {InitialSteps(sh) : sh \in (SUBSET Rows) \ {{}}}
    /\ BlogParked
    /\ sound = Parked

NextViewer ==
    \/ \E d \in ViewerDistances : OnPositionChanged(d)
    \/ \E zoom \in Zooms : OnPovChanged(zoom)
    \/ \E r \in Rows : OnPointerMove(r)
    \/ OnClick
    \/ \E i \in 1..MaxHandlers : Resume(i)
    \/ \E i \in 1..MaxHandlers : Throw(i)
    \/ \E i \in 1..MaxHandlers : Settle(i)
    \/ \E path \in Paths : LoadResolves(path)
    \/ \E path \in Paths : LoadRejects(path)

SpecViewer == InitViewer /\ [][NextViewer]_vars

\* C11: whatever the interleaving of the loadGLTF calls for one path,
\* calls made while the first request is in flight included, startLoading
\* is invoked at most once for the path: a call for a memoized path sends
\* no request and waits on the memoized promise.
C11_OneRequestPerPath ==
    /\ \A path \in Paths : viewer.requests[path] <= 1
    /\ \A path \in Paths : viewer.requests[path] = 1 <=> viewer.memoized[path] # "absent"
    /\ \A i \in 1..MaxHandlers :
          viewer.handlers[i].call = "memo" => viewer.requests[ObjectPath] = 1

\* Three invocations have called loadGLTF for the same path while its one
\* request was still in flight.
C11_Witness ==
    /\ viewer.requests[ObjectPath] = 1
    /\ viewer.memoized[ObjectPath] = "pending"
    /\ Cardinality({i \in 1..MaxHandlers : viewer.handlers[i].call # "none"}) >= 3
    /\ \E i \in 1..MaxHandlers : viewer.handlers[i].call = "memo" /\ Awaiting(viewer.handlers[i])

\* C20: the Info Window is opened only when dist < APPEAR_THRESHOLD and
\* only by an invocation of the listener whose awaited loadObject() has
\* resolved: no infoWindow.open() comes before the object's load completed.
C20_OpenOnlyNearAndLoaded ==
    [][viewer'.opens > viewer.opens =>
          /\ viewer'.dist < APPEAR_THRESHOLD
          /\ viewer.memoized[ObjectPath] = "resolved"
          /\ \E i \in 1..MaxHandlers :
                /\ Resume(i)
                /\ viewer.handlers[i].pc = "await501"
                /\ viewer'.handlers[i].loaded]_vars

\* The window has been opened, by an invocation that waited for a load
\* another invocation had started beyond the appear distance.
C20_Witness ==
    /\ viewer.isOpen
    /\ viewer.opens = 1
    /\ viewer.dist < APPEAR_THRESHOLD
    /\ viewer.handlers[1].pc = "returned"
    /\ viewer.handlers[1].call = "first"
    /\ viewer.handlers[2].loaded
    /\ viewer.handlers[2].call = "memo"

\* C21: in the complete listing, a position_changed event within
\* LOAD_THRESHOLD starts a load of the object (if none was started
\* before), and an invocation of the
\* listener that has got past the opening of the Info Window and whose
\* awaited loadObject() has resolved rotates the loaded object and renders
\* the scene: it ends with `object` holding the scene and a call of render.
C21_LoadedObjectRendered ==
    [][/\ ((\E d \in ViewerDistances : OnPositionChanged(d))
           /\ viewer.listing = "complete"
           /\ viewer'.dist < LOAD_THRESHOLD)
          => viewer'.memoized[ObjectPath] # "absent"
       /\ \A i \in 1..MaxHandlers :
             (Resume(i) /\ viewer.handlers[i].pc = "await518")
             => /\ viewer'.object
                /\ viewer'.renders = Count(viewer.renders)
                /\ viewer'.handlers[i].pc = "returned"]_vars

\* C24: the memo table only grows and an entry, once set, is never
\* replaced or removed: a memoized path stays memoized with the promise of
\* its one request, a rejected promise stays rejected, no request is sent
\* for a memoized path, and while the entry is rejected no invocation gets
\* a loaded object: one that awaits it can only throw.
C24_MemoEntryIsFinal ==
    [][\A path \in Paths :
          /\ viewer.memoized[path] # "absent" =>
                /\ viewer'.memoized[path] # "absent"
                /\ viewer'.requests[path] = viewer.requests[path]
                /\ viewer'.memoized[path] = "pending" => viewer.memoized[path] = "pending"
          /\ viewer.memoized[path] = "rejected" =>
                /\ viewer'.memoized[path] = "rejected"
                /\ \A i \in 1..MaxHandlers :
                      /\ viewer'.handlers[i].loaded = viewer.handlers[i].loaded
                      /\ (Awaiting(viewer.handlers[i])
                          /\ viewer'.handlers[i].pc # viewer.handlers[i].pc)
                         => viewer'.handlers[i].pc = "thrown"]_vars

\* The first load has failed; the invocation that started it and one that
\* called loadGLTF for the memoized path have both thrown, a third call
\* waits on the rejected entry, and still only one request was sent.
C24_Witness ==
    /\ viewer.memoized[ObjectPath] = "rejected"
    /\ viewer.requests[ObjectPath] = 1
    /\ viewer.handlers[1].call = "first"
    /\ viewer.handlers[1].pc = "thrown"
    /\ viewer.handlers[2].call = "memo"
    /\ viewer.handlers[2].pc = "thrown"
    /\ viewer.handlers[3].call = "memo"
    /\ Awaiting(viewer.handlers[3])

\* C25: no two calls of loadGLTF for the path are given the same scene
\* instance: the call that started the request gets the loaded scene, and
\* every call served from the memo gets a clone that no other call got.
C25_OwnInstancePerCaller ==
    /\ \A a, b \in 1..Len(viewer.given) :
          a # b => viewer.given[a].scene # viewer.given[b].scene
    /\ \A a \in 1..Len(viewer.given) :
          viewer.given[a].call = "first" <=> viewer.given[a].scene = Original

\* The scene has been handed out four times: the loaded scene to the call
\* that started the request and clones to calls served from the memo.
C25_Witness ==
    /\ Len(viewer.given) >= 4
    /\ \E a \in 1..Len(viewer.given) : viewer.given[a].call = "first"
    /\ Cardinality({a \in 1..Len(viewer.given) : viewer.given[a].call = "memo"}) >= 3

\* A step in which the pov_changed listener runs.
PovListenerRuns == \E zoom \in Zooms : OnPovChanged(zoom)

\* A step of the position_changed listener: its start, or its resumption
\* after an await.
PositionListenerRuns ==
    \/ \E d \in ViewerDistances : OnPositionChanged(d)
    \/ \E i \in 1..MaxHandlers : Resume(i)

\* C23: the pov_changed listener only sets the canvas scale, from the
\* stored dist and the current zoom: it leaves dist, the renders, the memo
\* and its requests, the Info Window and the invocations of the
\* position_changed listener as they are; and the scene is rendered only
\* by the position_changed listener.
C23_PovOnlyScales ==
    [][/\ PovListenerRuns =>
             /\ viewer'.scale = Scale(viewer.dist, viewer'.zoom)
             /\ viewer'.dist = viewer.dist
             /\ viewer'.renders = viewer.renders
             /\ viewer'.memoized = viewer.memoized
             /\ viewer'.requests = viewer.requests
             /\ viewer'.given = viewer.given
             /\ viewer'.isOpen = viewer.isOpen
             /\ viewer'.opens = viewer.opens
             /\ viewer'.handlers = viewer.handlers
             /\ viewer'.object = viewer.object
       /\ viewer'.renders # viewer.renders => PositionListenerRuns]_vars

\* The pov_changed listener ran last, with a zoom below MIN_ZOOM, while the
\* object's load was in flight and an invocation waited for it: the scale
\* is that of the stored dist and MIN_ZOOM.
C23_Witness ==
    /\ viewer.event = "pov"
    /\ viewer.zoom < MIN_ZOOM
    /\ viewer.dist < APPEAR_THRESHOLD
    /\ viewer.scale = [over |-> viewer.dist, times |-> MIN_ZOOM]
    /\ viewer.memoized[ObjectPath] = "pending"
    /\ \E i \in 1..MaxHandlers : Awaiting(viewer.handlers[i])

\* C22: a click on the canvas triggers the click interaction only if
\* hovered is true; after a pointermove hovered is true exactly when the
\* raycaster found an intersection with the 3D object; and a click on the
\* transparent area around the object (a row of the canvas that does not
\* show the object) triggers nothing.
C22_ClickOnlyOnObject ==
    [][/\ viewer'.interactions # viewer.interactions => (OnClick /\ viewer.hovered)
       /\ ((\E r \in Rows : OnPointerMove(r)) /\ viewer.object)
          => (viewer'.hovered <=> Intersects(viewer', viewer'.pointer))
       /\ (OnClick /\ viewer.at \notin viewer.shape)
          => viewer'.interactions = viewer.interactions]_vars

====
